---- MODULE Spec2Model ----
(***************************************************************************)
(* EasyFoodBack: the POST /api/receta handler of the recipe proxy.         *)
(*                                                                         *)
(* The repository holds three versions of the handler:                     *)
(*   "index"    src/index.js:42-112                                        *)
(*   "detailed" src/unnamed/part_000:54-129                                *)
(*   "legacy"   src/unnamed/part_000:151-190                               *)
(* A process runs exactly one of them; `variant` records which.            *)
(*                                                                         *)
(* JavaScript values are records [t |-> type, s |-> text]; a text is a     *)
(* sequence of string pieces, so that a template literal is the            *)
(* concatenation of its pieces and "" is the empty sequence.  A JSON       *)
(* object is a set of <<field, value>> pairs.                              *)
(***************************************************************************)
EXTENDS Integers, Sequences, FiniteSets, TLC

VARIABLES variant, apiKey, pc, ingredientes, calls, outcome, responses

vars == <<variant, apiKey, pc, ingredientes, calls, outcome, responses>>

(* ------------------------------ bounds -------------------------------- *)

\* number of requests that may be in flight together
NumReqs == 2

\* longest `choices` array the upstream returns
MaxChoices == 2

Reqs == 1..NumReqs

(* --------------------------- JavaScript values ------------------------ *)

JsUndefined == [t |-> "undefined", s |-> <<>>]

JsNull == [t |-> "null", s |-> <<>>]

Str(text) == [t |-> "string", s |-> text]

JsNumber(digits) == [t |-> "number", s |-> <<digits>>]

\* bug variant: a presence check (`x != null`) in place of a truthiness check
TruthyPresence(v) == v.t \notin {"undefined", "null"}

\* ToBoolean, as applied by `!ingredientes` and `!OPENROUTER_API_KEY`
Truthy(v) ==
  CASE v.t = "undefined" -> FALSE
    [] v.t = "null"      -> FALSE
    [] v.t = "string"    -> v.s # <<>>
    [] v.t = "number"    -> v.s \notin {<<"0">>, <<"NaN">>}
    [] v.t = "boolean"   -> v.s = <<"true">>
    [] OTHER             -> TRUE

\* ToString, as applied by `${...}` in a template literal
ToStr(v) ==
  CASE v.t = "undefined" -> <<"undefined">>
    [] v.t = "null"      -> <<"null">>
    [] v.t = "object"    -> <<"[object Object]">>
    [] OTHER             -> v.s

\* JSON.stringify of an object literal: fields holding undefined are dropped
Json(obj) == {p \in obj : p[2].t # "undefined"}

HasField(body, f) == \E p \in body : p[1] = f

Field(body, f) ==
  IF HasField(body, f) THEN (CHOOSE p \in body : p[1] = f)[2] ELSE JsUndefined

(* ------------------------------ messages ------------------------------ *)

MsgFaltan == <<"Faltan ingredientes en la solicitud.">>

MsgNoKey == <<"Error interno del servidor: API Key no disponible.">>

MsgUnknown == <<"Hubo un problema desconocido al generar la receta.">>

MsgAuthIndex ==
  <<"Error de autenticación con la API de OpenRouter. Verifica tu API Key y saldo.">>

MsgAuthDetailed ==
  <<"Error de autenticación con la API de OpenRouter. Verifica tu API Key y asegúrate de tener saldo.">>

MsgAuth(v) == IF v = "index" THEN MsgAuthIndex ELSE MsgAuthDetailed

PrefixApi == <<"Error de la API de OpenRouter: ">>

PrefixCode == <<"Error del servidor de OpenRouter: Código ">>

MsgConnect ==
  <<"No se pudo conectar con el servidor de OpenRouter. Revisa la conectividad de tu backend.">>

PrefixRequest == <<"Error en la solicitud: ">>

MsgLegacy == <<"Hubo un problema al generar la receta.">>

(* ------------------------------ the request --------------------------- *)

Variants == {"index", "detailed", "legacy"}

\* the versions that re-check the credential before calling
Guarded == {"index", "detailed"}

\* values of process.env.OPENROUTER_API_KEY: unset, set to "", set to a key
KeyValues == {JsUndefined, Str(<<>>), Str(<<"sk-or-v1-abc">>)}

\* values of req.body.ingredientes
IngredientValues ==
  {JsUndefined, JsNull, Str(<<>>), JsNumber("0"), Str(<<"huevo, tomate">>)}

Prompt(ing) ==
  <<"\nTengo los siguientes ingredientes en casa: ">> \o ToStr(ing)
  \o <<".\nPor favor, dame una receta clara y fácil de preparar usando estos ingredientes.\nIncluye una lista de pasos para cocinar, tiempo estimado y consejos útiles.\nPor favor, escribe sin errores ortográficos ni gramaticales.\n">>

\* the arguments of axios.post
OutboundCall(ing, key) ==
  [url           |-> "https://openrouter.ai/api/v1/chat/completions",
   model         |-> "google/gemma-2b-it",
   content       |-> Prompt(ing),
   authorization |-> <<"Bearer ">> \o ToStr(key)]

Response(status, obj) == [status |-> status, body |-> Json(obj)]

(* ------------------------- the upstream's answers --------------------- *)

\* one element of `choices`
Choice(hasMessage, content) == [hasMessage |-> hasMessage, content |-> content]

GoodChoice == Choice(TRUE, Str(<<"Receta de tomate con huevo...">>))

OtherChoice == Choice(TRUE, Str(<<"Otra receta">>))

\* `{}`: no `message`
ChoiceNoMessage == Choice(FALSE, JsUndefined)

\* `{ message: {} }`: no `content`
ChoiceNoContent == Choice(TRUE, JsUndefined)

FirstChoices == {GoodChoice, ChoiceNoMessage, ChoiceNoContent}

\* a response body: t is "empty" (no body, axios gives '') or "object";
\* err is the shape of its `error` field, msg the value of `error.message`
Data(t, hasChoices, choices, err, msg) ==
  [t |-> t, hasChoices |-> hasChoices, choices |-> choices, err |-> err, msg |-> msg]

DataEmpty == Data("empty", FALSE, <<>>, "absent", JsUndefined)

DataPlain == Data("object", FALSE, <<>>, "absent", JsUndefined)

RECURSIVE Others(_)
Others(n) == IF n = 0 THEN <<>> ELSE <<OtherChoice>> \o Others(n - 1)

ChoiceLists ==
  {<<>>} \cup {<<c>> \o Others(n) : c \in FirstChoices, n \in 0..(MaxChoices - 1)}

SuccessBodies ==
  {DataEmpty, DataPlain}
  \cup {Data("object", TRUE, cs, "absent", JsUndefined) : cs \in ChoiceLists}

ErrorBodies ==
  {DataEmpty, DataPlain,
   Data("object", FALSE, <<>>, "string", JsUndefined),
   Data("object", FALSE, <<>>, "object", JsUndefined),
   Data("object", FALSE, <<>>, "object", Str(<<"Rate limit exceeded">>))}

FailureStatuses == {401, 429}

\* how the promise of axios.post settles
Settled(kind, status, data) == [kind |-> kind, status |-> status, data |-> data]

NoOutcome == Settled("none", 0, DataEmpty)

Outcomes ==
  {Settled("fulfilled", 200, d) : d \in SuccessBodies}
  \cup {Settled("errResponse", st, d) : st \in FailureStatuses, d \in ErrorBodies}
  \cup {Settled("errRequest", 0, DataEmpty), Settled("errSetup", 0, DataEmpty)}

(* ------------------------------- errors -------------------------------- *)

\* what the catch block reads of the caught error
Err(hasResponse, status, data, hasRequest, message) ==
  [hasResponse |-> hasResponse, status |-> status, data |-> data,
   hasRequest |-> hasRequest, message |-> message]

NoErr == Err(FALSE, 0, DataEmpty, FALSE, <<>>)

TypeError(prop) ==
  Err(FALSE, 0, DataEmpty, FALSE,
      <<"Cannot read properties of undefined (reading '", prop, "')">>)

\* the rejection of axios.post
AxiosError(o) ==
  CASE o.kind = "errResponse" ->
         Err(TRUE, o.status, o.data, TRUE,
             <<"Request failed with status code ", ToString(o.status)>>)
    [] o.kind = "errRequest" ->
         Err(FALSE, 0, DataEmpty, TRUE, <<"Network Error">>)
    [] OTHER ->
         Err(FALSE, 0, DataEmpty, FALSE, <<"Invalid character in header content">>)

Returned(receta) == [threw |-> FALSE, error |-> NoErr, receta |-> receta]

Thrown(e) == [threw |-> TRUE, error |-> e, receta |-> JsUndefined]

\* bug variant: the last choice in place of the first
ExtractLast(data) ==
  IF ~(data.t = "object" /\ data.hasChoices) THEN Thrown(TypeError("0"))
  ELSE IF data.choices = <<>> THEN Thrown(TypeError("message"))
  ELSE IF ~data.choices[Len(data.choices)].hasMessage THEN Thrown(TypeError("content"))
  ELSE Returned(data.choices[Len(data.choices)].content)

\* bug variant: optional chaining, `choices?.[0]?.message?.content`
ExtractOptional(data) ==
  IF ~(data.t = "object" /\ data.hasChoices) THEN Returned(JsUndefined)
  ELSE IF data.choices = <<>> THEN Returned(JsUndefined)
  ELSE IF ~data.choices[1].hasMessage THEN Returned(JsUndefined)
  ELSE Returned(data.choices[1].content)

\* response.data.choices[0].message.content (choices[0] is choices[1] here)
Extract(data) ==
  IF ~(data.t = "object" /\ data.hasChoices) THEN Thrown(TypeError("0"))
  ELSE IF data.choices = <<>> THEN Thrown(TypeError("message"))
  ELSE IF ~data.choices[1].hasMessage THEN Thrown(TypeError("content"))
  ELSE Returned(data.choices[1].content)

\* the try block after the await
TryBody(o) ==
  IF o.kind = "fulfilled" THEN Extract(o.data) ELSE Thrown(AxiosError(o))

\* error.response.data && error.response.data.error && error.response.data.error.message
ApiMessage(data) ==
  IF data.t = "object" /\ data.err = "object" /\ Truthy(data.msg)
  THEN data.msg ELSE JsUndefined

(* ----------------------------- the catch block ------------------------ *)

\* bug variant: the structured message is looked at before the status
ErrorMessageApiFirst(v, e) ==
  IF e.hasResponse THEN
    IF Truthy(ApiMessage(e.data)) THEN PrefixApi \o ToStr(ApiMessage(e.data))
    ELSE IF e.status = 401 THEN MsgAuth(v)
    ELSE PrefixCode \o <<ToString(e.status), ".">>
  ELSE IF e.hasRequest THEN MsgConnect
  ELSE PrefixRequest \o e.message

\* bug variant: the structured message is never looked at
ErrorMessageNoApi(v, e) ==
  IF e.hasResponse THEN
    IF e.status = 401 THEN MsgAuth(v)
    ELSE PrefixCode \o <<ToString(e.status), ".">>
  ELSE IF e.hasRequest THEN MsgConnect
  ELSE PrefixRequest \o e.message

\* bug variant: no `else if (error.request)` branch
ErrorMessageNoRequest(v, e) ==
  IF e.hasResponse THEN
    IF e.status = 401 THEN MsgAuth(v)
    ELSE IF Truthy(ApiMessage(e.data)) THEN PrefixApi \o ToStr(ApiMessage(e.data))
    ELSE PrefixCode \o <<ToString(e.status), ".">>
  ELSE PrefixRequest \o e.message

\* errorMessage as the catch block of "index" and "detailed" leaves it
ErrorMessage(v, e) ==
  IF e.hasResponse THEN
    IF e.status = 401 THEN MsgAuth(v)
    ELSE IF Truthy(ApiMessage(e.data)) THEN PrefixApi \o ToStr(ApiMessage(e.data))
    ELSE PrefixCode \o <<ToString(e.status), ".">>
  ELSE IF e.hasRequest THEN MsgConnect
  ELSE PrefixRequest \o e.message

\* a response body as a value, for `detalle`
DataAsJs(data) ==
  IF data.t = "empty" THEN Str(<<>>)
  ELSE [t |-> "object",
        s |-> <<"choices:", ToString(Len(data.choices)), "error:", data.err>>
              \o ToStr(data.msg)]

\* error.response?.data || error.message   ("legacy")
Detalle(e) ==
  IF e.hasResponse /\ Truthy(DataAsJs(e.data)) THEN DataAsJs(e.data)
  ELSE Str(e.message)

\* the response the catch block sends
Catch(v, e) ==
  IF v = "legacy"
  THEN Response(500, {<<"error", Str(MsgLegacy)>>, <<"detalle", Detalle(e)>>})
  ELSE Response(500, {<<"error", Str(ErrorMessage(v, e))>>})

\* the handler from the resumption of the await to its end
Continuation(v, o) ==
  IF TryBody(o).threw THEN Catch(v, TryBody(o).error)
  ELSE Response(200, {<<"receta", TryBody(o).receta>>})

(* ------------------------- the handler up to the await ----------------- *)

Step(p, rs, cs) == [pc |-> p, responses |-> rs, calls |-> cs]

Resp400 == Response(400, {<<"error", Str(MsgFaltan)>>})

Resp500NoKey == Response(500, {<<"error", Str(MsgNoKey)>>})

\* bug variant: the credential is checked before the ingredients
EntryKeyFirst(v, key, ing) ==
  IF v \in Guarded /\ ~Truthy(key) THEN Step("done", <<Resp500NoKey>>, <<>>)
  ELSE IF ~Truthy(ing) THEN Step("done", <<Resp400>>, <<>>)
  ELSE Step("awaiting", <<>>, <<OutboundCall(ing, key)>>)

\* bug variant: the 400 is sent without `return`
EntryNoReturn(v, key, ing) ==
  IF v \in Guarded /\ ~Truthy(key)
  THEN Step("done", (IF Truthy(ing) THEN <<>> ELSE <<Resp400>>) \o <<Resp500NoKey>>, <<>>)
  ELSE Step("awaiting", (IF Truthy(ing) THEN <<>> ELSE <<Resp400>>),
            <<OutboundCall(ing, key)>>)

\* from `const { ingredientes } = req.body` to the await of axios.post
Entry(v, key, ing) ==
  IF ~Truthy(ing) THEN Step("done", <<Resp400>>, <<>>)
  ELSE IF v \in Guarded /\ ~Truthy(key) THEN Step("done", <<Resp500NoKey>>, <<>>)
  ELSE Step("awaiting", <<>>, <<OutboundCall(ing, key)>>)

(* ------------------------------- the machine --------------------------- *)

Init ==
  /\ variant \in Variants
  /\ apiKey \in KeyValues
  /\ pc = [r \in Reqs |-> "new"]
  /\ ingredientes = [r \in Reqs |-> JsUndefined]
  /\ calls = [r \in Reqs |-> <<>>]
  /\ outcome = [r \in Reqs |-> NoOutcome]
  /\ responses = [r \in Reqs |-> <<>>]

\* the requests are numbered in their order of arrival
Arrived(r) == pc[r] # "new"

\* request r arrives with req.body.ingredientes = ing and runs to its first
\* response or to the await
Receive(r, ing) ==
  /\ pc[r] = "new"
  /\ \A q \in Reqs : q < r => Arrived(q)
  /\ ingredientes' = [ingredientes EXCEPT ![r] = ing]
  /\ pc' = [pc EXCEPT ![r] = Entry(variant, apiKey, ing).pc]
  /\ responses' = [responses EXCEPT ![r] = @ \o Entry(variant, apiKey, ing).responses]
  /\ calls' = [calls EXCEPT ![r] = @ \o Entry(variant, apiKey, ing).calls]
  /\ UNCHANGED <<variant, apiKey, outcome>>

\* the request that arrived last
Latest == CHOOSE r \in Reqs : Arrived(r) /\ \A q \in Reqs : Arrived(q) => q <= r

\* bug variant: `res` kept in a module-level variable, overwritten by each arrival
ResumeSharedRes(r, o) ==
  /\ pc[r] = "awaiting"
  /\ outcome' = [outcome EXCEPT ![r] = o]
  /\ responses' = [responses EXCEPT ![Latest] = Append(@, Continuation(variant, o))]
  /\ pc' = [pc EXCEPT ![r] = "done"]
  /\ UNCHANGED <<variant, apiKey, ingredientes, calls>>

\* the promise of request r settles as o and the handler runs to its end
Resume(r, o) ==
  /\ pc[r] = "awaiting"
  /\ outcome' = [outcome EXCEPT ![r] = o]
  /\ responses' = [responses EXCEPT ![r] = Append(@, Continuation(variant, o))]
  /\ pc' = [pc EXCEPT ![r] = "done"]
  /\ UNCHANGED <<variant, apiKey, ingredientes, calls>>

Next ==
  \/ \E r \in Reqs, ing \in IngredientValues : Receive(r, ing)
  \/ \E r \in Reqs, o \in Outcomes : Resume(r, o)

Spec == Init /\ [][Next]_vars

\* the event loop runs the continuation of every promise that settles
FairSpec == Spec /\ \A r \in Reqs : WF_vars(\E o \in Outcomes : Resume(r, o))

TypeOK ==
  /\ variant \in Variants
  /\ apiKey \in KeyValues
  /\ pc \in [Reqs -> {"new", "awaiting", "done"}]
  /\ \A r \in Reqs : ingredientes[r] \in IngredientValues
  /\ \A r \in Reqs : outcome[r] \in Outcomes \cup {NoOutcome}

(* ------------------------------ properties ----------------------------- *)

Done(r) == pc[r] = "done"

\* request r was answered once, with this status
Answered(r, status) ==
  Done(r) /\ Len(responses[r]) = 1 /\ responses[r][1].status = status

ErrorText(r) == Field(responses[r][1].body, "error")

\* text `sub` occurs in text `text`
Contains(text, sub) ==
  \E i \in 0..(Len(text) - Len(sub)) : SubSeq(text, i + 1, i + Len(sub)) = sub

\* the promise of r rejected with a response carrying error.message
StructuredFailure(r) ==
  /\ Done(r)
  /\ outcome[r].kind = "errResponse"
  /\ outcome[r].data.t = "object"
  /\ outcome[r].data.err = "object"
  /\ outcome[r].data.msg.t = "string"
  /\ outcome[r].data.msg.s # <<>>

\* C1: a request whose ingredientes is absent, empty or otherwise falsy is
\* answered 400 with a body holding an `error` string, and no outbound call
\* is made for it, whatever the credential.
C1_MissingInput ==
  \A r \in Reqs :
    (Arrived(r) /\ ingredientes[r] \in {JsUndefined, JsNull, Str(<<>>), JsNumber("0")})
      => /\ Answered(r, 400)
         /\ ErrorText(r).t = "string"
         /\ ErrorText(r).s # <<>>
         /\ calls[r] = <<>>

C1_Witness ==
  \E r \in Reqs :
    /\ ingredientes[r] = Str(<<>>)
    /\ Answered(r, 400)
    /\ apiKey = JsUndefined

\* every choice holds a message with textual content
ValidChoices(data) ==
  /\ data.t = "object"
  /\ data.hasChoices
  /\ Len(data.choices) >= 1
  /\ \A i \in 1..Len(data.choices) :
       data.choices[i].hasMessage /\ data.choices[i].content.t = "string"

\* C2: a request with non-empty ingredientes whose upstream call succeeds
\* with at least one choice is answered 200 with body { receta }, receta
\* being the message content of the first choice, unchanged.
C2_FirstChoiceVerbatim ==
  \A r \in Reqs :
    (Done(r) /\ outcome[r].kind = "fulfilled" /\ ValidChoices(outcome[r].data))
      => /\ Answered(r, 200)
         /\ responses[r][1].body = {<<"receta", outcome[r].data.choices[1].content>>}

C2_Witness ==
  \E r \in Reqs :
    /\ outcome[r].kind = "fulfilled"
    /\ outcome[r].data.choices = <<GoodChoice, OtherChoice>>
    /\ Answered(r, 200)
    /\ Field(responses[r][1].body, "receta") = GoodChoice.content

\* C3 as stated: with the credential unset, every request is answered 500,
\* whether its ingredientes is valid or not.
C3_Original ==
  (variant \in Guarded /\ apiKey = JsUndefined)
    => \A r \in Reqs : Arrived(r) => Answered(r, 500)

\* C3 amended: with the credential unset, the handlers that check it answer
\* 500 to a request with truthy ingredientes and 400 to a request whose
\* ingredientes is missing or falsy.
C3_Amended ==
  (variant \in Guarded /\ apiKey = JsUndefined)
    => \A r \in Reqs :
         Arrived(r) => Answered(r, IF Truthy(ingredientes[r]) THEN 500 ELSE 400)

C3_Witness ==
  /\ variant \in Guarded
  /\ apiKey = JsUndefined
  /\ \E r, q \in Reqs :
       /\ ingredientes[r] = Str(<<"huevo, tomate">>) /\ Answered(r, 500)
       /\ ingredientes[q] = JsUndefined /\ Answered(q, 400)

\* C4: with the credential unset, a request with non-empty ingredientes is
\* answered 500 'API Key no disponible' and no outbound call is made; an
\* outbound call is only issued when the ingredient check and the credential
\* check have both passed.
C4_CredentialGuard ==
  \A r \in Reqs :
    /\ (Arrived(r) /\ Truthy(ingredientes[r]) /\ apiKey = JsUndefined)
         => (Answered(r, 500) /\ ErrorText(r) = Str(MsgNoKey) /\ calls[r] = <<>>)
    /\ calls[r] # <<>> => (Truthy(ingredientes[r]) /\ Truthy(apiKey))

\* the safety part of C5
C5_Safety ==
  \A r \in Reqs :
    /\ Len(responses[r]) <= 1
    /\ Len(calls[r]) <= 1
    /\ ~Done(r) => responses[r] = <<>>
    /\ Done(r) =>
         /\ Len(responses[r]) = 1
         /\ responses[r][1].status \in {200, 400, 500}
         /\ responses[r][1].status = 400 <=> ~Truthy(ingredientes[r])
         /\ responses[r][1].status = 200 => outcome[r].kind = "fulfilled"
         /\ (Truthy(ingredientes[r]) /\ outcome[r].kind # "fulfilled")
              => responses[r][1].status = 500

\* C5: every request gets exactly one response and at most one outbound
\* call, and, the outbound call settling, every request is eventually
\* answered with a status in {200, 400, 500}: 400 only for missing input,
\* 500 for every other failure.
C5_OneResponse ==
  /\ [] C5_Safety
  /\ \A r \in Reqs : Arrived(r) ~> (Done(r) /\ Len(responses[r]) = 1)

C5_Witness ==
  \E r, q \in Reqs :
    /\ Answered(r, 200) /\ Len(calls[r]) = 1
    /\ Answered(q, 500) /\ Len(calls[q]) = 1 /\ outcome[q].kind = "errRequest"

\* C6 as stated: a structured error.message of the upstream is embedded in
\* the error text of the 500, for every failure status, 401 included.
C6_Original ==
  variant \in Guarded =>
    \A r \in Reqs :
      StructuredFailure(r)
        => (Answered(r, 500) /\ Contains(ErrorText(r).s, outcome[r].data.msg.s))

\* C6 amended: a structured error.message of the upstream is embedded in the
\* error text of the 500 for every failure status other than 401.
C6_Amended ==
  variant \in Guarded =>
    \A r \in Reqs :
      (StructuredFailure(r) /\ outcome[r].status # 401)
        => (Answered(r, 500) /\ Contains(ErrorText(r).s, outcome[r].data.msg.s))

C6_Witness ==
  /\ variant \in Guarded
  /\ \E r \in Reqs :
       /\ StructuredFailure(r)
       /\ outcome[r].status = 429
       /\ ErrorText(r).s = <<"Error de la API de OpenRouter: ", "Rate limit exceeded">>

\* C7: an upstream failure with status 401 is answered 500 with the
\* authentication/balance message, whatever the error body holds.
C7_AuthMessage ==
  variant \in Guarded =>
    \A r \in Reqs :
      (Done(r) /\ outcome[r].kind = "errResponse" /\ outcome[r].status = 401)
        => /\ Answered(r, 500)
           /\ variant = "index" => ErrorText(r) = Str(MsgAuthIndex)
           /\ variant = "detailed" => ErrorText(r) = Str(MsgAuthDetailed)

C7_Witness ==
  /\ variant \in Guarded
  /\ \E r \in Reqs :
       /\ StructuredFailure(r)
       /\ outcome[r].status = 401
       /\ ErrorText(r).s \in {MsgAuthIndex, MsgAuthDetailed}

\* C8: an upstream call that fails with no response at all is answered 500
\* with the connectivity message, not with an upstream-status or
\* request-construction message.
C8_NoResponse ==
  variant \in Guarded =>
    \A r \in Reqs :
      (Done(r) /\ outcome[r].kind = "errRequest")
        => /\ Answered(r, 500)
           /\ ErrorText(r) = Str(MsgConnect)
           /\ ErrorText(r).s \notin {MsgAuthIndex, MsgAuthDetailed, MsgUnknown}
           /\ \A pre \in {PrefixApi, PrefixCode, PrefixRequest} :
                ~Contains(ErrorText(r).s, pre)

C8_Witness ==
  /\ variant \in Guarded
  /\ \E r \in Reqs :
       /\ outcome[r].kind = "errRequest"
       /\ Answered(r, 500)
       /\ ErrorText(r).s = MsgConnect

\* two requests with the same input and the same upstream outcome fare alike
C9_SameInSameOut ==
  \A r, q \in Reqs :
    (Done(r) /\ Done(q) /\ ingredientes[r] = ingredientes[q]
       /\ outcome[r] = outcome[q])
      => (responses[r] = responses[q] /\ calls[r] = calls[q])

\* what the model holds of request r
Own(r) == <<pc[r], ingredientes[r], calls[r], outcome[r], responses[r]>>

\* a step is a step of one request and touches nothing of the others, nor
\* the credential
C9_OwnStep ==
  /\ apiKey' = apiKey
  /\ variant' = variant
  /\ \A r \in Reqs : Own(r)' # Own(r) =>
       /\ pc'[r] # pc[r]
       /\ \A q \in Reqs \ {r} : Own(q)' = Own(q)

\* C9: under any interleaving each request's response is determined by its
\* own ingredientes, the credential and its own upstream outcome; no request
\* alters another, and the credential never changes.
C9_Independence == [] C9_SameInSameOut /\ [][C9_OwnStep]_vars

C9_Witness ==
  \E r, q \in Reqs :
    /\ r < q
    /\ pc[r] = "awaiting"
    /\ Answered(q, 200)
    /\ ingredientes[r] = ingredientes[q]

\* extraction finds no choices, no first choice, or no message in it
ExtractionFails(data) ==
  \/ ~(data.t = "object" /\ data.hasChoices)
  \/ data.choices = <<>>
  \/ ~data.choices[1].hasMessage

\* the first choice has a message without content
ContentMissing(data) ==
  /\ ~ExtractionFails(data)
  /\ data.choices[1].content.t = "undefined"

RequestErrorAnswer(r) ==
  /\ Answered(r, 500)
  /\ Len(ErrorText(r).s) > 1
  /\ SubSeq(ErrorText(r).s, 1, 1) = <<"Error en la solicitud: ">>

\* C10 as stated: a 2xx body with no choices or a malformed shape is answered
\* once, 500 'Error en la solicitud: ...', never 200.
C10_Original ==
  variant \in Guarded =>
    \A r \in Reqs :
      (Done(r) /\ outcome[r].kind = "fulfilled"
         /\ (ExtractionFails(outcome[r].data) \/ ContentMissing(outcome[r].data)))
        => RequestErrorAnswer(r)

\* C10 amended: a 2xx body without choices, with an empty choices array or
\* whose first choice has no message is answered once, 500 'Error en la
\* solicitud: ...'; a first choice whose message has no content raises no
\* error and is answered 200 with a body without receta.
C10_Amended ==
  variant \in Guarded =>
    \A r \in Reqs :
      (Done(r) /\ outcome[r].kind = "fulfilled")
        => /\ ExtractionFails(outcome[r].data) => RequestErrorAnswer(r)
           /\ ContentMissing(outcome[r].data)
                => (Answered(r, 200) /\ responses[r][1].body = {})

C10_Witness ==
  /\ variant \in Guarded
  /\ \E r \in Reqs :
       /\ outcome[r].kind = "fulfilled"
       /\ outcome[r].data.hasChoices
       /\ outcome[r].data.choices = <<>>
       /\ RequestErrorAnswer(r)

====
